---- MODULE Spec2Model ----
(***************************************************************************)
(* A model of arviz_base/rcparams.py: the validators, the schema table     *)
(* defaultParams, the validating registry RcParams, the file loader        *)
(* read_rcfile, rc_params and the scoped override rc_context.              *)
(*                                                                         *)
(* Python values are records [t, s, n, l]: t is the type, s the text of a  *)
(* str (or the name of an object), n the number of an int or bool and the  *)
(* hundredths of a float, l the elements of a list, tuple or set.          *)
(* A dict is the sequence of its <<key, value>> items in insertion order.  *)
(* An exception message is the sequence of the fragments it is formatted   *)
(* from.                                                                   *)
(***************************************************************************)
EXTENDS Integers, Sequences, FiniteSets, TLC

VARIABLES installed, rcParams, stack, entered, res, arg

vars == <<installed, rcParams, stack, entered, res, arg>>

----------------------------------------------------------------------------
(* Python values *)

None == [t |-> "none", s |-> "", n |-> 0, l |-> <<>>]
StrV(x) == [t |-> "str", s |-> x, n |-> 0, l |-> <<>>]
IntV(i) == [t |-> "int", s |-> "", n |-> i, l |-> <<>>]
BoolV(b) == [t |-> "bool", s |-> "", n |-> IF b THEN 1 ELSE 0, l |-> <<>>]
FloatV(h) == [t |-> "float", s |-> "", n |-> h, l |-> <<>>]
ListV(q) == [t |-> "list", s |-> "", n |-> 0, l |-> q]
TupleV(q) == [t |-> "tuple", s |-> "", n |-> 0, l |-> q]
SetV(q) == [t |-> "set", s |-> "", n |-> 0, l |-> q]
ObjV(name) == [t |-> "object", s |-> name, n |-> 0, l |-> <<>>]

Range(q) == {q[i] : i \in DOMAIN q}

\* The outcome of a call: the value returned, or the exception raised.
Ok(v) == [ok |-> TRUE, val |-> v, exc |-> "", msg |-> <<>>]
Raise(e, m) == [ok |-> FALSE, val |-> None, exc |-> e, msg |-> m]

\* str.lower() on the strings of the model
LowerTable ==
    ("TRUE" :> "true") @@ ("True" :> "true") @@ ("FALSE" :> "false") @@
    ("False" :> "false") @@ ("None" :> "none") @@ ("NONE" :> "none") @@
    ("AUTO" :> "auto") @@ ("Auto" :> "auto") @@ ("HTTPS" :> "https") @@
    ("Bokeh" :> "bokeh") @@ ("HDI" :> "hdi") @@ ("Median" :> "median") @@
    ("KDE" :> "kde")

Lower(x) == IF x \in DOMAIN LowerTable THEN LowerTable[x] ELSE x

\* int(str): the integer literals of the model; any other text is no literal
IntLiteral ==
    ("0" :> 0) @@ ("1" :> 1) @@ ("2" :> 2) @@ ("5" :> 5) @@ ("7" :> 7) @@
    ("40" :> 40) @@ ("-1" :> -1) @@ (" 7 " :> 7)

\* float(str), in hundredths: every integer literal is a float literal too
FloatLiteral ==
    ("0.5" :> 50) @@ ("0.9" :> 90) @@ ("0.94" :> 94) @@ ("1.0" :> 100) @@
    ("1.5" :> 150) @@ ("-0.5" :> -50) @@
    [x \in DOMAIN IntLiteral |-> 100 * IntLiteral[x]]

\* repr of a float, from its hundredths
FloatRepr(h) ==
    LET a == IF h < 0 THEN -h ELSE h
        frac == a % 100
        digits == IF frac % 10 = 0 THEN ToString(frac \div 10)
                  ELSE IF frac < 10 THEN "0" \o ToString(frac)
                  ELSE ToString(frac)
    IN (IF h < 0 THEN "-" ELSE "") \o ToString(a \div 100) \o "." \o digits

RECURSIVE ReprItems(_)
ReprItems(q) ==
    IF q = <<>> THEN ""
    ELSE "'" \o Head(q) \o "'" \o
         (IF Len(q) > 1 THEN ", " \o ReprItems(Tail(q)) ELSE "")

\* str(value)
PyStr(v) ==
    CASE v.t = "str" -> v.s
      [] v.t = "int" -> ToString(v.n)
      [] v.t = "bool" -> IF v.n = 1 THEN "True" ELSE "False"
      [] v.t = "float" -> FloatRepr(v.n)
      [] v.t = "none" -> "None"
      [] v.t = "list" -> "[" \o ReprItems(v.l) \o "]"
      [] v.t = "tuple" ->
            "(" \o ReprItems(v.l) \o (IF Len(v.l) = 1 THEN "," ELSE "") \o ")"
      [] v.t = "set" -> IF v.l = <<>> THEN "set()" ELSE "{" \o ReprItems(v.l) \o "}"
      [] OTHER -> "<" \o v.s \o " object>"

TypeName(v) ==
    CASE v.t = "none" -> "NoneType"
      [] v.t = "object" -> v.s
      [] OTHER -> v.t

\* int(value): truncation of a float towards zero, ValueError for a str that
\* is no literal, TypeError for a value that is no number and no str
PyInt(v) ==
    CASE v.t \in {"int", "bool"} -> Ok(IntV(v.n))
      [] v.t = "float" ->
            Ok(IntV(IF v.n < 0 THEN -((-v.n) \div 100) ELSE v.n \div 100))
      [] v.t = "str" ->
            IF v.s \in DOMAIN IntLiteral THEN Ok(IntV(IntLiteral[v.s]))
            ELSE Raise("ValueError",
                       <<"invalid literal for int() with base 10: ", v.s>>)
      [] OTHER ->
            Raise("TypeError",
                  <<"int() argument must be a string, a bytes-like object ",
                    "or a real number, not ", TypeName(v)>>)

\* float(value)
PyFloat(v) ==
    CASE v.t \in {"int", "bool"} -> Ok(FloatV(100 * v.n))
      [] v.t = "float" -> Ok(v)
      [] v.t = "str" ->
            IF v.s \in DOMAIN FloatLiteral THEN Ok(FloatV(FloatLiteral[v.s]))
            ELSE Raise("ValueError",
                       <<"could not convert string to float: ", v.s>>)
      [] OTHER ->
            Raise("TypeError",
                  <<"float() argument must be a string or a real number, not ",
                    TypeName(v)>>)

IsNumber(v) == v.t \in {"int", "bool", "float"}
Hundredths(v) == IF v.t = "float" THEN v.n ELSE 100 * v.n

\* a == b: numbers compare by value across int, bool and float
PyEq(a, b) ==
    IF IsNumber(a) /\ IsNumber(b) THEN Hundredths(a) = Hundredths(b)
    ELSE a = b

\* value in a set (or dict) of hashable members
PyIn(v, members) == \E m \in members : PyEq(v, m)

\* hash(value) in a membership test of a set: a list cannot be hashed, a set
\* is looked up as its frozenset
Hashable(v) == v.t # "list"

\* value is None or isinstance(value, str) and value.lower() == "none"
IsNoneLike(v) == v.t = "none" \/ (v.t = "str" /\ Lower(v.s) = "none")

----------------------------------------------------------------------------
(* Validators *)

Backends == {"matplotlib", "plotly", "bokeh"}

\* {"true": True, "false": False}.get(value, value)
TrueFalse(v) ==
    IF v = StrV("true") THEN BoolV(TRUE)
    ELSE IF v = StrV("false") THEN BoolV(FALSE)
    ELSE v

\* the validator _make_validate_choice(accepted_values, allow_none, typeof)
\* returns, applied to value; typeof is "str" or "int"
validate_choice(accepted_values, allow_none, typeof, value) ==
    IF allow_none /\ IsNoneLike(value) THEN Ok(None)
    ELSE
      LET conv == IF typeof = "int" THEN PyInt(value) ELSE Ok(StrV(PyStr(value)))
          low == IF conv.val.t = "str" THEN StrV(Lower(conv.val.s)) ELSE conv.val
      IN IF ~conv.ok THEN Raise("ValueError", <<"Could not convert to ", typeof>>)
         ELSE IF PyIn(low, accepted_values) THEN Ok(TrueFalse(low))
         ELSE Raise("ValueError",
                    <<PyStr(low), " is not one of ", "accepted_values">>
                    \o (IF allow_none THEN <<" nor None">> ELSE <<>>))

_validate_positive_int(value) ==
    LET conv == PyInt(value)
    IN IF ~conv.ok
       THEN IF conv.exc = "ValueError"
            THEN Raise("ValueError", <<"Could not convert to int">>)
            ELSE conv
       ELSE IF conv.val.n > 0 THEN conv
       ELSE Raise("ValueError", <<"Only positive values are valid">>)

_validate_float(value) ==
    LET conv == PyFloat(value)
    IN IF ~conv.ok /\ conv.exc = "ValueError"
       THEN Raise("ValueError", <<"Could not convert to float">>)
       ELSE conv

_validate_str(value) == Ok(StrV(PyStr(value)))

_validate_probability(value) ==
    LET conv == _validate_float(value)
    IN IF ~conv.ok THEN conv
       ELSE IF conv.val.n < 0 \/ conv.val.n > 100
       THEN Raise("ValueError", <<"Only values between 0 and 1 are valid.">>)
       ELSE conv

\* "value not in {True, False, 'true', 'false'}" hashes the value and compares
\* it with ==, and the result is "value is True or value == 'true'".
_validate_boolean(value) ==
    LET low == IF value.t = "str" THEN StrV(Lower(value.s)) ELSE value
    IN IF ~Hashable(low)
       THEN Raise("TypeError", <<"unhashable type: ", TypeName(low)>>)
       ELSE IF ~PyIn(low, {BoolV(TRUE), BoolV(FALSE), StrV("true"), StrV("false")})
       THEN Raise("ValueError", <<"Only boolean values are valid.">>)
       ELSE Ok(BoolV(low = BoolV(TRUE) \/ PyEq(low, StrV("true"))))

\* the validator _add_none_to_validator(base_validator) returns, applied to
\* value; base is the outcome of base_validator(value)
validate_with_none(base, value) ==
    IF IsNoneLike(value) THEN Ok(None) ELSE base

\* an object of the model has the callables eti and rhat iff it is a "stats"
_validate_stats_module(value) ==
    IF value.t = "str" THEN Ok(value)
    ELSE IF value.t = "object" /\ value.s = "stats" THEN Ok(value)
    ELSE Raise("ValueError",
               <<"Only strings or Python objects with statistical functions ",
                 "as methods are valid">>)

\* _validate_backend probing bokeh before plotly
_validate_backend_bokeh_first(value, inst) ==
    LET base == validate_choice(
                    {StrV("auto"), StrV("none"), StrV("matplotlib"),
                     StrV("bokeh"), StrV("plotly")}, FALSE, "str", value)
    IN IF ~base.ok THEN base
       ELSE IF base.val # StrV("auto") THEN base
       ELSE IF "matplotlib" \in inst THEN Ok(StrV("matplotlib"))
       ELSE IF "bokeh" \in inst THEN Ok(StrV("bokeh"))
       ELSE IF "plotly" \in inst THEN Ok(StrV("plotly"))
       ELSE Ok(StrV("none"))

\* inst: the plotting libraries an import finds
_validate_backend(value, inst) ==
    LET base == validate_choice(
                    {StrV("auto"), StrV("none"), StrV("matplotlib"),
                     StrV("bokeh"), StrV("plotly")}, FALSE, "str", value)
    IN IF ~base.ok THEN base
       ELSE IF base.val # StrV("auto") THEN base
       ELSE IF "matplotlib" \in inst THEN Ok(StrV("matplotlib"))
       ELSE IF "plotly" \in inst THEN Ok(StrV("plotly"))
       ELSE IF "bokeh" \in inst THEN Ok(StrV("bokeh"))
       ELSE Ok(StrV("none"))

\* value.split(",") on the strings of the model that hold a comma
CommaSplit ==
    ("chain, draw" :> <<"chain", " draw">>) @@
    ("(chain, draw)" :> <<"(chain", " draw)">>) @@
    ("chain,,draw" :> <<"chain", "", "draw">>) @@
    ("[a, b, c]" :> <<"[a", " b", " c]">>)

Split(x) == IF x \in DOMAIN CommaSplit THEN CommaSplit[x] ELSE <<x>>

\* v.strip("([ ])") on the pieces of the model
StripBrackets ==
    (" draw" :> "draw") @@ ("(chain" :> "chain") @@ (" draw)" :> "draw") @@
    ("[a" :> "a") @@ (" b" :> "b") @@ (" c]" :> "c") @@ (" " :> "") @@
    (" 7 " :> "7")

Strip(x) == IF x \in DOMAIN StripBrackets THEN StripBrackets[x] ELSE x

\* v.strip() is empty
IsBlank(x) == x \in {"", " "}

\* np.iterable(value)
Iterable(v) == v.t \in {"str", "list", "tuple", "set"}

\* the validator make_iterable_validator(str, length, allow_none, allow_auto)
\* returns, applied to value; length < 0 stands for length=None
validate_iterable(length, allow_none, allow_auto, value) ==
    IF allow_none /\ IsNoneLike(value) THEN Ok(None)
    ELSE IF value.t = "str" /\ allow_auto /\ Lower(value.s) = "auto"
    THEN Ok(StrV("auto"))
    ELSE
      LET pieces == SelectSeq(Split(value.s), LAMBDA p : ~IsBlank(p))
          items == IF value.t = "str"
                   THEN TupleV([i \in DOMAIN pieces |-> Strip(pieces[i])])
                   ELSE value
      IN IF Iterable(items) /\ items.t # "set"
         THEN IF length >= 0 /\ Len(items.l) # length
              THEN Raise("ValueError",
                         <<"Iterable must be of length: ", ToString(length)>>)
              ELSE Ok(TupleV(items.l))
         ELSE Raise("ValueError", <<"Only ordered iterable values are valid">>)

_validate_float_or_none(value) ==
    validate_with_none(_validate_float(value), value)

_validate_positive_int_or_none(value) ==
    validate_with_none(_validate_positive_int(value), value)

_validate_dims(value) == validate_iterable(-1, FALSE, FALSE, value)

----------------------------------------------------------------------------
(* The schema table and the registry *)

\* defaultParams: each key with its default, in the order of the table
defaultParams ==
    << <<"data.http_protocol", StrV("https")>>,
       <<"data.index_origin", IntV(0)>>,
       <<"data.sample_dims", TupleV(<<"chain", "draw">>)>>,
       <<"data.save_warmup", BoolV(FALSE)>>,
       <<"plot.backend", StrV("auto")>>,
       <<"plot.density_kind", StrV("kde")>>,
       <<"plot.max_subplots", IntV(40)>>,
       <<"stats.module", StrV("base")>>,
       <<"stats.ci_kind", StrV("eti")>>,
       <<"stats.ci_prob", FloatV(94)>>,
       <<"stats.ic_pointwise", BoolV(TRUE)>>,
       <<"stats.ic_scale", StrV("log")>>,
       <<"stats.ic_compare_method", StrV("stacking")>>,
       <<"stats.point_estimate", StrV("mean")>> >>

SchemaKeys == {defaultParams[i][1] : i \in DOMAIN defaultParams}

\* RcParams.validate[key](val): the validator the table gives the key
validate(key, val, inst) ==
    CASE key = "data.http_protocol" ->
            validate_choice({StrV("https"), StrV("http")}, FALSE, "str", val)
      [] key = "data.index_origin" ->
            validate_choice({IntV(0), IntV(1)}, FALSE, "int", val)
      [] key = "data.sample_dims" -> _validate_dims(val)
      [] key = "data.save_warmup" -> _validate_boolean(val)
      [] key = "plot.backend" -> _validate_backend(val, inst)
      [] key = "plot.density_kind" ->
            validate_choice({StrV("kde"), StrV("hist")}, FALSE, "str", val)
      [] key = "plot.max_subplots" -> _validate_positive_int_or_none(val)
      [] key = "stats.module" -> _validate_stats_module(val)
      [] key = "stats.ci_kind" ->
            validate_choice({StrV("eti"), StrV("hdi")}, FALSE, "str", val)
      [] key = "stats.ci_prob" -> _validate_probability(val)
      [] key = "stats.ic_pointwise" -> _validate_boolean(val)
      [] key = "stats.ic_scale" ->
            validate_choice({StrV("log"), StrV("negative_log"), StrV("deviance")},
                            FALSE, "str", val)
      [] key = "stats.ic_compare_method" ->
            validate_choice({StrV("stacking"), StrV("bb-pseudo-bma"),
                             StrV("pseudo-bma")}, FALSE, "str", val)
      [] key = "stats.point_estimate" ->
            validate_choice({StrV("mean"), StrV("median"), StrV("mode")},
                            TRUE, "str", val)

\* dict operations on a sequence of items
DictKeys(d) == {d[i][1] : i \in DOMAIN d}
DictGet(d, key) == d[CHOOSE i \in DOMAIN d : d[i][1] = key][2]
DictPut(d, key, val) ==
    IF key \in DictKeys(d)
    THEN [i \in DOMAIN d |-> IF d[i][1] = key THEN <<key, val>> ELSE d[i]]
    ELSE Append(d, <<key, val>>)

\* sorted(keys): the lexicographic order of the strings the model uses as keys
SortedKeys ==
    <<"data.http_protocol", "data.index_origin", "data.sample_dims",
      "data.save_warmup", "foo", "plot.backend", "plot.density_kind",
      "plot.max_subplots", "stats.ci_kind", "stats.ci_prob",
      "stats.ic_compare_method", "stats.ic_pointwise", "stats.ic_scale",
      "stats.module", "stats.point_estimate">>

\* the items of an RcParams as update() reads them: __iter__ yields the keys
\* sorted, __getitem__ gives each value
Items(storage) ==
    LET ks == SelectSeq(SortedKeys, LAMBDA k : k \in DictKeys(storage))
    IN [i \in DOMAIN ks |-> <<ks[i], DictGet(storage, ks[i])>>]

\* the body of RcParams.__setitem__ once the validator of the key was found:
\* cval is the outcome of self.validate[key](val)
store(storage, key, cval) ==
    IF cval.ok
    THEN [st |-> DictPut(storage, key, cval.val), out |-> Ok(None)]
    ELSE IF cval.exc = "ValueError"
    THEN [st |-> storage,
          out |-> Raise("ValueError", <<"Key ", key, ": ">> \o cval.msg)]
    ELSE [st |-> storage, out |-> cval]

\* __setitem__ of a plain dict for a key outside the table
__setitem__unchecked(storage, key, val, inst) ==
    IF key \notin SchemaKeys
    THEN [st |-> DictPut(storage, key, val), out |-> Ok(None)]
    ELSE store(storage, key, validate(key, val, inst))

\* __setitem__ storing val instead of cval
__setitem__raw(storage, key, val, inst) ==
    IF key \notin SchemaKeys
    THEN [st |-> storage,
          out |-> Raise("KeyError", <<key, " is not a valid rc parameter ">>)]
    ELSE store(storage, key,
               [validate(key, val, inst) EXCEPT
                    !.val = IF validate(key, val, inst).ok THEN val ELSE @])

\* RcParams.__setitem__ on the storage: st is the storage afterwards, out the
\* outcome of the call
__setitem__(storage, key, val, inst) ==
    IF key \notin SchemaKeys
    THEN [st |-> storage,
          out |-> Raise("KeyError",
                        <<key, " is not a valid rc parameter ",
                          "(see rcParams.keys() for a list of valid parameters)">>)]
    ELSE store(storage, key, validate(key, val, inst))

RECURSIVE update(_, _, _)

\* the loop of update after one item: one is the outcome of its __setitem__
update_rest(one, items, inst) ==
    IF one.out.ok THEN update(one.st, items, inst) ELSE one

\* MutableMapping.update: __setitem__ for each item in turn, up to the first
\* that raises
update(storage, items, inst) ==
    IF items = <<>> THEN [st |-> storage, out |-> Ok(None)]
    ELSE update_rest(__setitem__(storage, Head(items)[1], Head(items)[2], inst),
                     Tail(items), inst)

\* RcParams(*args): an empty storage, then update
RcParams(items, inst) == update(<<>>, items, inst)

\* RcParams.copy(): dict(self._underlying_storage)
copy(storage) == storage

__delitem__(storage, key) ==
    [st |-> storage, out |-> Raise("TypeError", <<"RcParams keys cannot be deleted">>)]

clear(storage) ==
    [st |-> storage, out |-> Raise("TypeError", <<"RcParams keys cannot be deleted">>)]

\* MutableMapping.pop, which RcParams.pop overrides
pop_mixin(storage, key, default) ==
    IF key \in DictKeys(storage)
    THEN [st |-> SelectSeq(storage, LAMBDA item : item[1] # key),
          out |-> Ok(DictGet(storage, key))]
    ELSE [st |-> storage, out |-> Ok(default)]

pop(storage, key, default) ==
    [st |-> storage,
     out |-> Raise("TypeError",
                   <<"RcParams keys cannot be deleted. ",
                     "Use .get(key) of RcParams[key] to check values">>)]

popitem(storage) ==
    [st |-> storage,
     out |-> Raise("TypeError",
                   <<"RcParams keys cannot be deleted. ",
                     "Use .get(key) of RcParams[key] to check values">>)]

setdefault(storage, key, default) ==
    [st |-> storage,
     out |-> Raise("TypeError",
                   <<"Defaults in RcParams are handled on object initialization ",
                     "during library import. Use arvizrc file instead.">>)]

----------------------------------------------------------------------------
(* Configuration files.  A line is the sequence of its tokens; a token is a *)
(* piece of text without "#", ":" or white space, or one of "#", ":", " "   *)
(* and the line end.  A file is its name and its lines.                     *)

WhiteSpace == {" ", "\n"}

RECURSIVE Join(_)
Join(q) == IF q = <<>> THEN "" ELSE Head(q) \o Join(Tail(q))

RECURSIVE BeforeFirst(_, _)
BeforeFirst(q, sep) ==
    IF q = <<>> \/ Head(q) = sep THEN <<>>
    ELSE <<Head(q)>> \o BeforeFirst(Tail(q), sep)

RECURSIVE AfterFirst(_, _)
AfterFirst(q, sep) ==
    IF q = <<>> THEN <<>>
    ELSE IF Head(q) = sep THEN Tail(q)
    ELSE AfterFirst(Tail(q), sep)

RECURSIVE SplitAll(_, _)
\* text.split(sep), without the limit of one split
SplitAll(q, sep) ==
    IF sep \in Range(q)
    THEN <<BeforeFirst(q, sep)>> \o SplitAll(AfterFirst(q, sep), sep)
    ELSE <<q>>

\* text.split(sep, 1)
Split1(q, sep) ==
    IF sep \in Range(q) THEN <<BeforeFirst(q, sep), AfterFirst(q, sep)>>
    ELSE <<q>>

RECURSIVE LStrip(_)
LStrip(q) ==
    IF q # <<>> /\ Head(q) \in WhiteSpace THEN LStrip(Tail(q)) ELSE q

RECURSIVE RStrip(_)
RStrip(q) ==
    IF q # <<>> /\ q[Len(q)] \in WhiteSpace
    THEN RStrip(SubSeq(q, 1, Len(q) - 1))
    ELSE q

\* text.strip()
StripWs(q) == RStrip(LStrip(q))

NoFile == [fname |-> "", lines |-> <<>>]

\* 'line #%d\n\t"%s"\n\tin file "%s"' % (line_no, line, fname)
error_details(line_no, line, fname) ==
    <<"line #", ToString(line_no), Join(line), "in file ", fname>>

\* the try block of the loop body: set is the outcome of config[key] = val
read_set(set, log, val, line_no, line, fname) ==
    IF set.out.ok THEN [config |-> set.st, log |-> log, out |-> Ok(None)]
    ELSE IF set.out.exc = "ValueError"
    THEN [config |-> <<>>, log |-> log,
          out |-> Raise("ValueError",
                        <<"Bad val ", val, " on ">>
                        \o error_details(line_no, line, fname)
                        \o set.out.msg)]
    ELSE [config |-> <<>>, log |-> log, out |-> set.out]

\* the loop body from "key, val = tup" on, key and val stripped
read_pair(config, log, key, val, line_no, line, fname, inst) ==
    read_set(__setitem__(config, key, StrV(val), inst),
             IF key \in DictKeys(config)
             THEN Append(log, <<"Duplicate key in file", fname, ToString(line_no)>>)
             ELSE log,
             val, line_no, line, fname)

\* the loop body from "if len(tup) != 2" on
read_tup(config, log, tup, line_no, line, fname, inst) ==
    IF Len(tup) # 2
    THEN [config |-> config,
          log |-> Append(log, <<"Illegal">> \o error_details(line_no, line, fname)),
          out |-> Ok(None)]
    ELSE read_pair(config, log, Join(StripWs(tup[1])), Join(StripWs(tup[2])),
                   line_no, line, fname, inst)

\* the loop body from "if not strippedline" on
read_stripped(config, log, strippedline, line_no, line, fname, inst) ==
    IF strippedline = <<>>
    THEN [config |-> config, log |-> log, out |-> Ok(None)]
    ELSE read_tup(config, log, Split1(strippedline, ":"), line_no, line, fname, inst)

\* the loop body of read_rcfile for one line: config is the registry so far
\* (none when the line raises), log the warnings so far
read_line(config, log, line_no, line, fname, inst) ==
    read_stripped(config, log, StripWs(Split1(line, "#")[1]),
                  line_no, line, fname, inst)

RECURSIVE read_lines(_, _, _, _, _, _)

\* the loop after one line: one is the outcome of that line
read_rest(one, lines, line_no, fname, inst) ==
    IF one.out.ok
    THEN read_lines(one.config, one.log, lines, line_no, fname, inst)
    ELSE one

\* the loop of read_rcfile from line line_no on
read_lines(config, log, lines, line_no, fname, inst) ==
    IF line_no > Len(lines)
    THEN [config |-> config, log |-> log, out |-> Ok(None)]
    ELSE read_rest(read_line(config, log, line_no, lines[line_no], fname, inst),
                   lines, line_no + 1, fname, inst)

\* read_rcfile(fname), the file holding lines: config is the registry
\* returned (when out.ok; nothing is returned when the call raises)
read_rcfile(file, inst) ==
    read_lines(RcParams(<<>>, inst).st, <<>>, file.lines, 1, file.fname, inst)

\* rc_params from "if fname is not None" on: defaults is the outcome of
\* RcParams(defaults), file_defaults of read_rcfile(fname)
merge_file(defaults, file_defaults, inst) ==
    IF ~file_defaults.out.ok
    THEN [st |-> defaults.st, out |-> file_defaults.out]
    ELSE update(defaults.st, Items(file_defaults.config), inst)

rc_params_from(defaults, fname, inst) ==
    IF ~defaults.out.ok \/ fname = NoFile THEN defaults
    ELSE merge_file(defaults, read_rcfile(fname, inst), inst)

\* rc_params(ignore_files), located being what get_arviz_rcfile() finds
\* (NoFile for None)
rc_params(ignore_files, located, inst) ==
    rc_params_from(RcParams(defaultParams, inst),
                   IF ignore_files THEN NoFile ELSE located, inst)

----------------------------------------------------------------------------
(* rc_context *)

\* rc_context.__init__ from "if rc" on: merged is the shared registry so far
init_rc(merged, orig, rc, inst) ==
    IF ~merged.out.ok \/ rc = <<>>
    THEN [st |-> merged.st, orig |-> orig, out |-> merged.out]
    ELSE [orig |-> orig] @@ update(merged.st, rc, inst)

\* rc_context.__init__ from "rcParams.update(file_rcparams)" on
init_file(shared, file_rcparams, rc, inst) ==
    IF ~file_rcparams.out.ok
    THEN [st |-> shared, orig |-> copy(shared), out |-> file_rcparams.out]
    ELSE init_rc(update(shared, Items(file_rcparams.config), inst),
                 copy(shared), rc, inst)

\* __init__ merging rc before the file
rc_context_init_rc_first(shared, rc, file, inst) ==
    IF file.fname # ""
    THEN init_file(update(shared, rc, inst).st, read_rcfile(file, inst), <<>>, inst)
    ELSE init_rc([st |-> shared, out |-> Ok(None)], copy(shared), rc, inst)

\* rc_context.__init__(rc, fname) over the shared registry: st is the shared
\* registry afterwards, orig the snapshot self._orig, out the outcome
rc_context_init(shared, rc, file, inst) ==
    IF file.fname # ""
    THEN init_file(shared, read_rcfile(file, inst), rc, inst)
    ELSE init_rc([st |-> shared, out |-> Ok(None)], copy(shared), rc, inst)

\* __exit__ without the restoring update
rc_context_exit_keep(shared, orig, inst) == [st |-> shared, out |-> Ok(None)]

\* rc_context.__exit__: rcParams.update(self._orig); it returns None
rc_context_exit(shared, orig, inst) == update(shared, orig, inst)

\* the with statement swallows the exception of its block iff __exit__
\* returns a true value
Truthy(v) ==
    CASE v.t = "none" -> FALSE
      [] v.t \in {"int", "bool", "float"} -> v.n # 0
      [] v.t = "str" -> v.s # ""
      [] v.t \in {"list", "tuple", "set"} -> v.l # <<>>
      [] OTHER -> TRUE

----
(* Inputs *)

MaxDepth == 2
MaxLines == 2

Line(tokens) == tokens \o <<"\n">>

GoodFile ==
    [fname |-> "good.rc",
     lines |-> << Line(<<"#", " ", "comment">>),
                  Line(<<"stats.ci_prob", ":", " ", "0.9">>),
                  Line(<<"bad", " ", "line", " ", "no", " ", "colon">>),
                  Line(<<"stats.ci_prob", " ", ":", " ", "0.5", " ", "#", "dup">>),
                  Line(<<"data.save_warmup", ":", " ", "FALSE">>) >>]

BadValueFile ==
    [fname |-> "badvalue.rc",
     lines |-> << Line(<<"plot.max_subplots", ":", " ", "none">>),
                  Line(<<"stats.ci_prob", ":", " ", "5">>) >>]

UnknownKeyFile ==
    [fname |-> "unknown.rc", lines |-> << Line(<<"foo", ":", " ", "1">>) >>]

StartupFile ==
    [fname |-> "arvizrc",
     lines |-> << Line(<<"stats.ci_prob", ":", " ", "0.5">>) >>]

MainFiles == {GoodFile, BadValueFile}

MainSets ==
    { <<"plot.max_subplots", StrV("None")>>,
      <<"stats.ci_prob", StrV("0.5")>>,
      <<"stats.ci_prob", ListV(<<"0.5">>)>>,
      <<"foo", IntV(1)>> }

RcNone == << <<"plot.max_subplots", None>> >>
RcTwo == << <<"stats.ci_prob", StrV("0.9")>>, <<"stats.ic_pointwise", StrV("True")>> >>
RcPartial == << <<"stats.ci_prob", FloatV(50)>>, <<"foo", IntV(1)>> >>

MainRcs == {RcTwo, RcPartial}

\* rc_context(rc=..., fname=...): <<>> for rc=None, NoFile for fname=None
MainEnters ==
    { <<RcNone, NoFile>>, <<RcTwo, GoodFile>>, <<<<>>, GoodFile>>,
      <<RcPartial, GoodFile>>, <<RcNone, BadValueFile>>, <<<<>>, UnknownKeyFile>> }

----------------------------------------------------------------------------
(* The shared registry and the operations on it *)

Result(op, args, out) ==
    [op |-> op, args |-> args, out |-> out, leaves |-> out.exc,
     config |-> <<>>, log |-> <<>>]

NoResult == Result("init", <<>>, Ok(None))

\* the module is imported iff rc_params() returns
Imported(r) == r.out.ok /\ rcParams = r.st

\* rcParams = rc_params() at import, for any set of installed plotting
\* libraries, without a configuration file or with one that loads
Init ==
    /\ installed \in SUBSET Backends
    /\ \E located \in {NoFile, StartupFile} :
          Imported(rc_params(FALSE, located, installed))
    /\ stack = <<>>
    /\ entered = <<>>
    /\ res = NoResult
    /\ arg = <<>>

\* rcParams[key] = val
SetItem(key, val) ==
    LET r == __setitem__(rcParams, key, val, installed)
    IN /\ rcParams' = r.st
       /\ res' = Result("set", <<key, val>>, r.out)
       /\ UNCHANGED <<installed, stack, entered, arg>>

\* rcParams.update(rc)
Update(rc) ==
    LET r == update(rcParams, rc, installed)
    IN /\ rcParams' = r.st
       /\ res' = Result("update", <<rc>>, r.out)
       /\ UNCHANGED <<installed, stack, entered, arg>>

\* del rcParams[key]
DelItem(key) ==
    LET r == __delitem__(rcParams, key)
    IN /\ rcParams' = r.st
       /\ res' = Result("delete", <<key>>, r.out)
       /\ UNCHANGED <<installed, stack, entered, arg>>

\* rcParams.clear()
Clear ==
    LET r == clear(rcParams)
    IN /\ rcParams' = r.st
       /\ res' = Result("clear", <<>>, r.out)
       /\ UNCHANGED <<installed, stack, entered, arg>>

\* rcParams.pop(key, default)
Pop(key, default) ==
    LET r == pop(rcParams, key, default)
    IN /\ rcParams' = r.st
       /\ res' = Result("pop", <<key, default>>, r.out)
       /\ UNCHANGED <<installed, stack, entered, arg>>

\* rcParams.popitem()
PopItem ==
    LET r == popitem(rcParams)
    IN /\ rcParams' = r.st
       /\ res' = Result("popitem", <<>>, r.out)
       /\ UNCHANGED <<installed, stack, entered, arg>>

\* rcParams.setdefault(key, default)
SetDefault(key, default) ==
    LET r == setdefault(rcParams, key, default)
    IN /\ rcParams' = r.st
       /\ res' = Result("setdefault", <<key, default>>, r.out)
       /\ UNCHANGED <<installed, stack, entered, arg>>

Loaded(file, r) ==
    /\ res' = [Result("read", <<file>>, r.out) EXCEPT
                    !.config = r.config, !.log = r.log]
    /\ UNCHANGED <<installed, rcParams, stack, entered, arg>>

\* read_rcfile(fname) by a caller that keeps the shared registry as it is
ReadRcfile(file) ==
    /\ file.fname # ""
    /\ Loaded(file, read_rcfile(file, installed))

Entered(rc, file, r) ==
    /\ rcParams' = r.st
    /\ stack' = IF r.out.ok THEN Append(stack, r.orig) ELSE stack
    /\ entered' = IF r.out.ok THEN Append(entered, rcParams) ELSE entered
    /\ res' = Result("enter", <<rc, file>>, r.out)
    /\ UNCHANGED <<installed, arg>>

\* with rc_context(rc=rc, fname=file.fname): the context is entered when
\* __init__ returns; when it raises there is no context and no __exit__
Enter(rc, file) ==
    /\ Len(stack) < MaxDepth
    /\ Entered(rc, file, rc_context_init(rcParams, rc, file, installed))

Exited(raised, r) ==
    /\ rcParams' = r.st
    /\ stack' = SubSeq(stack, 1, Len(stack) - 1)
    /\ entered' = SubSeq(entered, 1, Len(entered) - 1)
    /\ res' = [Result("exit", <<raised>>, r.out) EXCEPT
                    !.leaves = IF ~r.out.ok THEN r.out.exc
                               ELSE IF raised /\ ~Truthy(r.out.val)
                               THEN "BlockError"
                               ELSE ""]
    /\ UNCHANGED <<installed, arg>>

\* the end of the innermost with block, raised telling whether the block
\* raised: __exit__ runs, and the exception of the block leaves the with
\* statement unless __exit__ returns a true value
Exit(raised) ==
    /\ stack # <<>>
    /\ Exited(raised, rc_context_exit(rcParams, stack[Len(stack)], installed))

Next ==
    \/ \E kv \in MainSets : SetItem(kv[1], kv[2])
    \/ \E rc \in MainRcs : Update(rc)
    \/ DelItem("stats.ci_prob")
    \/ Clear
    \/ Pop("stats.ci_prob", None)
    \/ PopItem
    \/ SetDefault("stats.ci_prob", FloatV(50))
    \/ \E file \in MainFiles : ReadRcfile(file)
    \/ \E e \in MainEnters : Enter(e[1], e[2])
    \/ \E raised \in BOOLEAN : Exit(raised)

Spec == Init /\ [][Next]_vars

----------------------------------------------------------------------------
(* One operation on the registry built from the defaults, over every key   *)
(* and a set of values of every type                                       *)

AllKeys == SchemaKeys \cup {"foo"}

RawValues ==
    { None, BoolV(TRUE), BoolV(FALSE),
      IntV(0), IntV(1), IntV(2), IntV(40), IntV(-1),
      FloatV(0), FloatV(50), FloatV(94), FloatV(100), FloatV(150),
      StrV("true"), StrV("TRUE"), StrV("False"), StrV("none"), StrV("None"),
      StrV("auto"), StrV("Bokeh"), StrV("0.5"), StrV("0.9"), StrV("5"), StrV("1"),
      StrV("abc"), StrV("https"), StrV("kde"), StrV("base"), StrV("eti"),
      StrV("HDI"), StrV("log"), StrV("stacking"), StrV("mean"),
      StrV("chain, draw"),
      ListV(<<"chain">>), ListV(<<"0.5">>), TupleV(<<"chain", "draw">>),
      SetV(<<"chain">>), ObjV("stats"), ObjV("object") }

\* RcParams.validate[key](val) alone
Validate(key, val) ==
    /\ key \in SchemaKeys
    /\ res' = Result("validate", <<key, val>>, validate(key, val, installed))
    /\ UNCHANGED <<installed, rcParams, stack, entered, arg>>

\* rcParams = rc_params(ignore_files=True), for any set of installed plotting
\* libraries; arg is the key and the value of the operation
InitOne ==
    /\ installed \in SUBSET Backends
    /\ rcParams = rc_params(TRUE, NoFile, installed).st
    /\ stack = <<>>
    /\ entered = <<>>
    /\ res = NoResult
    /\ arg \in AllKeys \X RawValues

\* no operation was performed yet
Fresh == res.op = "init"

NextOne ==
    \/ Fresh /\ SetItem(arg[1], arg[2])
    \/ Fresh /\ Validate(arg[1], arg[2])
    \/ Fresh /\ DelItem(arg[1])
    \/ Fresh /\ Clear
    \/ Fresh /\ Pop(arg[1], arg[2])
    \/ Fresh /\ PopItem
    \/ Fresh /\ SetDefault(arg[1], arg[2])

SpecOne == InitOne /\ [][NextOne]_vars

----------------------------------------------------------------------------
(* One load of a file of up to MaxLines lines *)

FileLines ==
    { Line(<<"stats.ci_prob", ":", " ", "0.5">>),
      Line(<<"stats.ci_prob", ":", "5">>),
      Line(<<"foo", ":", " ", "1">>),
      Line(<<"bad", " ", "line">>),
      Line(<<"stats.module", ":", " ", "a", ":", "b">>),
      Line(<<"stats.ci_prob", ":", "0.5", ":", "x">>),
      Line(<<"#", " ", "comment">>),
      Line(<<"data.save_warmup", " ", ":", " ", "TRUE", " ", "#", "c">>),
      Line(<<"plot.backend", ":", "auto">>),
      Line(<<>>) }

InitFile ==
    /\ installed \in SUBSET Backends
    /\ rcParams = rc_params(TRUE, NoFile, installed).st
    /\ stack = <<>>
    /\ entered = <<>>
    /\ res = NoResult
    /\ \E n \in 0..MaxLines : \E lines \in [1..n -> FileLines] :
          arg = [fname |-> "arvizrc", lines |-> lines]

NextFile == Fresh /\ ReadRcfile(arg)

SpecFile == InitFile /\ [][NextFile]_vars

----------------------------------------------------------------------------
(* Properties *)

Embeds(msg, fragment) == fragment \in Range(msg)
EmbedsAll(msg, fragments) == \A i \in DOMAIN fragments : Embeds(msg, fragments[i])
Default(key) == DictGet(defaultParams, key)

\* C1: when the innermost rc_context exits, whether its block raised or not,
\* the shared registry is exactly what it was when that context was entered
\* (so after the outermost exit, what it was before the first entry), and an
\* exception of the block leaves the with statement.
C1_ExitRestores ==
    [][res'.op = "exit" =>
          /\ res'.out.ok
          /\ rcParams' = entered[Len(entered)]
          /\ res'.leaves = IF res'.args[1] THEN "BlockError" ELSE ""]_vars

\* an inner context whose block raised has exited inside an outer context
\* whose override is still in force
C1_Witness ==
    /\ res.op = "exit"
    /\ res.args[1]
    /\ res.leaves = "BlockError"
    /\ Len(stack) = 1
    /\ rcParams # stack[1]

\* C2: after rc_context(rc, fname) was entered, every key holds the validated
\* value of rc if rc has the key, else the value of the file if the file has
\* it, else the value it had before the entry.
C2_EntryPrecedence ==
    (res.op = "enter" /\ res.out.ok) =>
        LET rc == res.args[1]
            file == res.args[2]
            prior == entered[Len(entered)]
            config == IF file.fname # ""
                      THEN read_rcfile(file, installed).config
                      ELSE <<>>
        IN \A k \in SchemaKeys :
              DictGet(rcParams, k) =
                 IF k \in DictKeys(rc)
                 THEN validate(k, DictGet(rc, k), installed).val
                 ELSE IF k \in DictKeys(config) THEN DictGet(config, k)
                 ELSE DictGet(prior, k)

\* a context was entered with a file and a mapping that both set
\* stats.ci_prob, to values that differ from each other and from the prior one
C2_Witness ==
    /\ res.op = "enter"
    /\ res.out.ok
    /\ res.args = <<RcTwo, GoodFile>>
    /\ DictGet(rcParams, "stats.ci_prob") = FloatV(90)
    /\ DictGet(read_rcfile(GoodFile, installed).config, "stats.ci_prob") = FloatV(50)
    /\ DictGet(entered[Len(entered)], "stats.ci_prob") = FloatV(94)
    /\ DictGet(rcParams, "data.save_warmup") = BoolV(FALSE)

\* C3: rcParams[key] = value with a key outside the schema raises the
\* unknown-key error (KeyError) for every value and leaves the registry, its
\* key set included, as it was.
C3_UnknownKeyRejected ==
    [][(res'.op = "set" /\ res'.args[1] \notin SchemaKeys) =>
          /\ ~res'.out.ok
          /\ res'.out.exc = "KeyError"
          /\ Embeds(res'.out.msg, res'.args[1])
          /\ rcParams' = rcParams]_vars

\* a value some validators accept was set for the unknown key
C3_Witness ==
    /\ res.op = "set"
    /\ res.args = <<"foo", FloatV(50)>>
    /\ res.out.exc = "KeyError"

\* C4: delete, clear, pop, popitem and setdefault raise TypeError whatever
\* their arguments and leave the registry as it was.
C4_NoRemoval ==
    [][res'.op \in {"delete", "clear", "pop", "popitem", "setdefault"} =>
          /\ ~res'.out.ok
          /\ res'.out.exc = "TypeError"
          /\ rcParams' = rcParams]_vars

\* pop was called with a key the registry holds
C4_Witness ==
    /\ res.op = "pop"
    /\ res.args[1] \in DictKeys(rcParams)
    /\ res.args[2] = None
    /\ res.out.exc = "TypeError"

\* C5: the shared registry always holds exactly the keys of the schema, each
\* once, and each value is one the validator of its key returns.
C5_RegistryInvariant ==
    /\ DictKeys(rcParams) = SchemaKeys
    /\ Len(rcParams) = Cardinality(SchemaKeys)
    /\ \A i \in DOMAIN rcParams :
          \E raw \in RawValues :
             LET cval == validate(rcParams[i][1], raw, installed)
             IN cval.ok /\ cval.val = rcParams[i][2]

\* an entry failed on its second key after the first was merged, inside an
\* entered context
C5_Witness ==
    /\ res.op = "enter"
    /\ ~res.out.ok
    /\ res.args[1] = RcPartial
    /\ stack # <<>>
    /\ DictGet(rcParams, "stats.ci_prob") = FloatV(50)
    /\ DictGet(stack[Len(stack)], "stats.ci_prob") = FloatV(90)

\* C6: rcParams[key] = value with a schema key whose validator rejects the
\* value raises ValueError with the key and the validator's message in its
\* message, and leaves the registry as it was.
C6_InvalidValueError ==
    [][(/\ res'.op = "set"
        /\ res'.args[1] \in SchemaKeys
        /\ ~validate(res'.args[1], res'.args[2], installed).ok) =>
          /\ ~res'.out.ok
          /\ res'.out.exc = "ValueError"
          /\ Embeds(res'.out.msg, res'.args[1])
          /\ EmbedsAll(res'.out.msg,
                       validate(res'.args[1], res'.args[2], installed).msg)
          /\ rcParams' = rcParams]_vars

\* a line as the file format describes it: its text without the comment and
\* the surrounding white space, and the number of its colons
Stripped(line) == StripWs(BeforeFirst(line, "#"))
Colons(line) == Cardinality({i \in DOMAIN Stripped(line) : Stripped(line)[i] = ":"})
KeyOf(line) == Join(StripWs(BeforeFirst(Stripped(line), ":")))
ValOf(line) == StrV(Join(StripWs(AfterFirst(Stripped(line), ":"))))

\* a "key: value" line with an unknown key or a value the key's validator
\* rejects
BadPair(line, inst) ==
    /\ Colons(line) = 1
    /\ \/ KeyOf(line) \notin SchemaKeys
       \/ ~validate(KeyOf(line), ValOf(line), inst).ok

\* what setting the pair of the line raises
PairError(line, inst) == __setitem__(<<>>, KeyOf(line), ValOf(line), inst).out

\* C7: loading a file with a line that has an unknown key or an invalid value
\* raises, returns no registry, and the error names the file, the number and
\* the text of such a line and carries the validation message. (Stated for
\* files whose lines have at most one colon each.)
C7_BadLineFatal ==
    (/\ res.op = "read"
     /\ \A i \in DOMAIN arg.lines : Colons(arg.lines[i]) <= 1
     /\ \E i \in DOMAIN arg.lines : BadPair(arg.lines[i], installed)) =>
        /\ ~res.out.ok
        /\ res.config = <<>>
        /\ \E i \in DOMAIN arg.lines :
              /\ BadPair(arg.lines[i], installed)
              /\ Embeds(res.out.msg, arg.fname)
              /\ Embeds(res.out.msg, ToString(i))
              /\ Embeds(res.out.msg, Join(arg.lines[i]))
              /\ EmbedsAll(res.out.msg, PairError(arg.lines[i], installed).msg)

\* a line that is not empty and has no colon / not exactly one colon
NoColon(line) == Stripped(line) # <<>> /\ Colons(line) = 0
NotOneColon(line) == Stripped(line) # <<>> /\ Colons(line) # 1

Illegal(log, line_no) ==
    \E e \in DOMAIN log : log[e][1] = "Illegal" /\ log[e][3] = ToString(line_no)

\* the file without its lines that satisfy Skip
Without(file, Skip(_)) ==
    [file EXCEPT !.lines = SelectSeq(file.lines, LAMBDA line : ~Skip(line))]

\* the load of the file succeeds or fails as the load of the other file does,
\* and returns the same registry when it succeeds
SameLoad(r, file, inst) ==
    /\ r.out.ok = read_rcfile(file, inst).out.ok
    /\ r.out.ok => r.config = read_rcfile(file, inst).config

\* C8 as stated: every line that is not empty and does not have exactly one
\* colon is logged and skipped: the load goes as without these lines, and a
\* load that succeeds has logged each of them.
C8_NotOneColonSkipped ==
    res.op = "read" =>
        /\ SameLoad(res, Without(arg, NotOneColon), installed)
        /\ res.out.ok =>
              \A i \in DOMAIN arg.lines :
                 NotOneColon(arg.lines[i]) => Illegal(res.log, i)

\* C8 amended: every line that is not empty and has no colon is logged and
\* skipped: the load goes as without these lines, and a load that succeeds
\* has logged each of them; a line with more than one colon is not such a
\* line: it is split at its first colon and is not logged as illegal.
C8_NoColonSkipped ==
    res.op = "read" =>
        /\ SameLoad(res, Without(arg, NoColon), installed)
        /\ res.out.ok =>
              \A i \in DOMAIN arg.lines :
                 Illegal(res.log, i) <=> NoColon(arg.lines[i])

\* a file with a line without colon, then a line that sets a key, then a line
\* with two colons was loaded
C8_Witness ==
    /\ res.op = "read"
    /\ res.out.ok
    /\ Len(arg.lines) >= 2
    /\ NoColon(arg.lines[1])
    /\ Colons(arg.lines[2]) = 2
    /\ Illegal(res.log, 1)
    /\ DictKeys(res.config) = {"stats.module"}
    /\ DictGet(res.config, "stats.module") = StrV("a:b")

\* C9 as stated: the validator of every key returns the default of the key
\* unchanged, and the registry built from the defaults maps every key to its
\* default.
C9_DefaultsUnchanged ==
    /\ (res.op = "validate" /\ res.args[2] = Default(res.args[1])) =>
          res.out.ok /\ res.out.val = res.args[2]
    /\ Fresh => \A k \in SchemaKeys : DictGet(rcParams, k) = Default(k)

\* the backend "auto" stands for: the first of matplotlib, plotly and bokeh
\* that is installed, "none" without any
FirstInstalled(inst) ==
    IF "matplotlib" \in inst THEN "matplotlib"
    ELSE IF "plotly" \in inst THEN "plotly"
    ELSE IF "bokeh" \in inst THEN "bokeh"
    ELSE "none"

Resolved(key, inst) ==
    IF key = "plot.backend" THEN StrV(FirstInstalled(inst)) ELSE Default(key)

\* C9 amended: the validator of every key accepts the default of the key and
\* returns it unchanged, except that the default "auto" of plot.backend comes
\* back as the first installed of matplotlib, plotly and bokeh, or "none";
\* the registry built from the defaults maps every key to that value.
C9_DefaultsValidate ==
    /\ (res.op = "validate" /\ res.args[2] = Default(res.args[1])) =>
          res.out.ok /\ res.out.val = Resolved(res.args[1], installed)
    /\ Fresh =>
          /\ DictKeys(rcParams) = SchemaKeys
          /\ \A k \in SchemaKeys : DictGet(rcParams, k) = Resolved(k, installed)

\* the default of plot.backend was validated with plotly and bokeh installed
C9_Witness ==
    /\ res.op = "validate"
    /\ res.args = <<"plot.backend", StrV("auto")>>
    /\ installed = {"plotly", "bokeh"}
    /\ res.out.val = StrV("plotly")

BooleanKeys == {"data.save_warmup", "stats.ic_pointwise"}
IsTrue(v) == v = BoolV(TRUE) \/ (v.t = "str" /\ Lower(v.s) = "true")
IsFalse(v) == v = BoolV(FALSE) \/ (v.t = "str" /\ Lower(v.s) = "false")

\* C10: the boolean validator returns True exactly for True and the strings
\* equal to "true" ignoring case, False exactly for False and the strings
\* equal to "false" ignoring case, and fails for every other value; setting a
\* boolean key succeeds only for these.
C10_BooleanValidator ==
    (res.op \in {"validate", "set"} /\ res.args[1] \in BooleanKeys) =>
        /\ res.out.ok <=> (IsTrue(res.args[2]) \/ IsFalse(res.args[2]))
        /\ (res.op = "validate" /\ res.out.ok) =>
              res.out.val = BoolV(IsTrue(res.args[2]))
        /\ (res.op = "set" /\ res.out.ok) =>
              DictGet(rcParams, res.args[1]) = BoolV(IsTrue(res.args[2]))

\* C11: when rc_context(rc, fname) raises on entry, while loading the file or
\* while merging the file's entries or the mapping into the shared registry,
\* the shared registry afterwards equals the registry before the entry was
\* attempted, and no context is entered.
C11_FailedEntryNoLeak ==
    [][(res'.op = "enter" /\ ~res'.out.ok) =>
          /\ rcParams' = rcParams
          /\ stack' = stack]_vars

====
